---- MODULE Spec2Model ----
(***************************************************************************)
(* A model of the oksvg icon parser (svgicon.ReadIconStream), of the path  *)
(* operations of svgicon (drawTo, ToSVGPath, the Path recorder) and of the *)
(* raster backend's render entry points (svgraster.rasterIcon).            *)
(*                                                                         *)
(* Four state machines share this module:                                  *)
(*   Spec        the token loop of ReadIconStream;                         *)
(*   SpecPath    building, serializing, re-parsing and replaying a Path;   *)
(*   SpecRender  two concurrent rasterIcon calls on one shared icon;       *)
(*   SpecDriver  one raster driver: SetupDrawers and the handles' Draw.    *)
(***************************************************************************)
EXTENDS Integers, Sequences, FiniteSets, TLC

VARIABLES
    pc,        \* parser: "loop" while ReadIconStream is in its for loop, "returned" after, "panic" on a run-time panic
    err,       \* parser: the error value ReadIconStream returned ("nil" when none)
    icon,      \* parser: the *SvgIcon under construction
    cursor,    \* parser: the *iconCursor
    decoder,   \* parser: the xml.Decoder: its stack of open elements and the number of tokens delivered
    lastTok,   \* parser: the token handled by the last step and the error its handling reported
    ghost,     \* parser history: the frames resolved at the start-tags of the open elements,
               \* the number of tokens whose handling reported an error, the number of shapes seen
               \* whether a title (a desc) start-tag was read with no title (desc) end-tag after it
    path,      \* path machine: the Path being built
    phase,     \* path machine: "build", "text", "parsed", "replay" or "off"
    svgText,   \* path machine: the result of ToSVGPath, a sequence of characters
    reparsed,  \* path machine: the result of parsing svgText back
    M,         \* path machine: the transform a replay applies
    idx,       \* path machine: the number of operations replayed
    calls,     \* path machine: the driver calls issued by the replay, in order
    recorder,  \* path machine: the last method called on the Path being built, and
               \* the Path the replay records into
    render,    \* render machine: per render, its width, its position and the transform it drew with
    shared,    \* render machine: the shared icon's Transform field
    driver     \* driver machine: the scanner's extent and colour, the handles, the caller's paint

parserVars == <<pc, err, icon, cursor, decoder, lastTok, ghost>>
pathVars   == <<path, phase, svgText, reparsed, M, idx, calls, recorder>>
renderVars == <<render, shared, driver>>
vars       == <<pc, err, icon, cursor, decoder, lastTok, ghost, path, phase, svgText, reparsed, M, idx, calls, recorder, render, shared, driver>>

(***************************************************************************)
(* Bounds of the exploration.                                              *)
(***************************************************************************)
MaxTokens == 4
MaxDepth == 3

(***************************************************************************)
(* Matrix2D, restricted to matrices [a 0 0 d e f] (scale and translation). *)
(***************************************************************************)
Identity == [A |-> 1, D |-> 1, E |-> 0, F |-> 0]

\* parent.Mult(child): the child transform is applied before the parent's.
Mult(parent, child) ==
    [A |-> parent.A * child.A, D |-> parent.D * child.D,
     E |-> parent.A * child.E + parent.E, F |-> parent.D * child.F + parent.F]

Translate1 == [A |-> 1, D |-> 1, E |-> 1, F |-> 0]
Scale2 == [A |-> 2, D |-> 2, E |-> 0, F |-> 0]

TransformOf(name) ==
    CASE name = "t1" -> Translate1
      [] name = "t2" -> Scale2
      [] OTHER -> Identity

(***************************************************************************)
(* Style frames.                                                           *)
(***************************************************************************)
DefaultStyle == [fill |-> "black", transform |-> Identity]

\* cursor := &iconCursor{styleStack: []PathStyle{DefaultStyle}, icon: icon}
\* (preceded by a faulty variant with one frame too many)
InitStyleStackTwoFrames == <<DefaultStyle, DefaultStyle>>
InitStyleStack == <<DefaultStyle>>

Last(s) == s[Len(s)]
Front(s) == SubSeq(s, 1, Len(s) - 1)

(***************************************************************************)
(* The tokens the decoder delivers.  A start-tag carries the element's     *)
(* local name and its attributes: transform ("" when absent), fill ("" when*)
(* absent), id ("" when absent) and bad (a malformed style value).         *)
(***************************************************************************)
ErrorModes == {"IgnoreErrorMode", "WarnErrorMode", "StrictErrorMode"}

Attr(tr, fill, id, bad) == [transform |-> tr, fill |-> fill, id |-> id, bad |-> bad]
StartEl(name, attr) == [name |-> name, attr |-> attr]

GradientElements == {"linearGradient", "radialGradient"}

StartTokens ==
    {StartEl("g", Attr(tr, "", "", FALSE)) : tr \in {"", "t1", "t2"}}
    \cup {StartEl("rect", Attr("", "", "", FALSE)),
          StartEl("rect", Attr("", "red", "", FALSE)),
          StartEl("rect", Attr("", "", "a", FALSE)),
          StartEl("rect", Attr("", "", "", TRUE))}
    \cup {StartEl(n, Attr("", "", "", FALSE)) :
             n \in {"defs", "title", "desc", "stop", "bogus"}}
    \cup {StartEl(n, Attr("", "", "gr", FALSE)) : n \in GradientElements}

CharDatas == {<<"x">>}

\* The elements readStartElement dispatches on.
Recognized == {"g", "rect", "defs", "title", "desc", "stop"} \cup GradientElements
PathProducing == {"rect"}
Structural == {"g"}

(***************************************************************************)
(* cursor.pushStyle: overlay the element's style attributes on a copy of   *)
(* the top frame and push the copy.                                        *)
(***************************************************************************)
Overlay(parent, attr) ==
    [fill |-> IF attr.fill = "" THEN parent.fill ELSE attr.fill,
     transform |-> IF attr.transform = "" THEN parent.transform
                   ELSE Mult(parent.transform, TransformOf(attr.transform))]

pushStyle(c, attr) ==
    IF attr.bad /\ c.errorMode = "StrictErrorMode"
    THEN [err |-> "StyleParseError", cursor |-> c]
    ELSE LET curStyle == IF attr.bad THEN Last(c.styleStack)
                         ELSE Overlay(Last(c.styleStack), attr)
         IN [err |-> "nil",
             cursor |-> [c EXCEPT !.styleStack = Append(c.styleStack, curStyle)]]

(***************************************************************************)
(* cursor.readStartElement: inside a definitions section a shape or group  *)
(* is captured in the accumulator instead of reaching the display list;    *)
(* every other element is dispatched on its name.                          *)
(***************************************************************************)
Captured(c, se) == c.inDefs /\ ~c.inGrad /\ se.name \in PathProducing \cup Structural

\* The gradient being populated: none yet, a new one, one more colour stop.
NoGradient == [ID |-> "", Stops |-> <<>>, built |-> FALSE]
NewGradient(id) == [ID |-> id, Stops |-> <<>>, built |-> TRUE]
AddStop(g) == [g EXCEPT !.Stops = Append(g.Stops, "stop")]

\* A title or desc start-tag opens a new, empty text entry
\* (preceded by the faulty variant that opens none).
OpenNoEntry(texts) == texts
OpenEntry(texts) == Append(texts, <<>>)

readStartElement(c, ic, se) ==
    IF Captured(c, se)
    THEN [err |-> "nil", icon |-> ic,
          cursor |-> [c EXCEPT !.currentDef =
                         Append(c.currentDef, [ID |-> se.attr.id, Tag |-> se.name])]]
    ELSE IF se.name \notin Recognized
    THEN [err |-> IF c.errorMode = "StrictErrorMode" THEN "UnrecognizedElement" ELSE "nil",
          icon |-> ic, cursor |-> c]
    ELSE CASE se.name \in PathProducing ->
                [err |-> "nil", cursor |-> c,
                 icon |-> [ic EXCEPT !.SVGPaths =
                              Append(ic.SVGPaths, [tag |-> se.name, id |-> se.attr.id,
                                                   style |-> Last(c.styleStack)])]]
           [] se.name = "defs" ->
                [err |-> "nil", icon |-> ic, cursor |-> [c EXCEPT !.inDefs = TRUE]]
           [] se.name = "title" ->
                [err |-> "nil", cursor |-> [c EXCEPT !.inTitleText = TRUE],
                 icon |-> [ic EXCEPT !.Titles = OpenEntry(ic.Titles)]]
           [] se.name = "desc" ->
                [err |-> "nil", cursor |-> [c EXCEPT !.inDescText = TRUE],
                 icon |-> [ic EXCEPT !.Descriptions = OpenEntry(ic.Descriptions)]]
           [] se.name \in GradientElements ->
                [err |-> "nil", icon |-> ic,
                 cursor |-> [c EXCEPT !.inGrad = TRUE, !.grad = NewGradient(se.attr.id)]]
           [] se.name = "stop" ->
                [err |-> "nil", icon |-> ic,
                 cursor |-> IF c.inGrad THEN [c EXCEPT !.grad = AddStop(c.grad)] ELSE c]
           [] OTHER -> [err |-> "nil", icon |-> ic, cursor |-> c]

(***************************************************************************)
(* ReadIconStream.                                                         *)
(***************************************************************************)
NewIcon == [SVGPaths |-> <<>>, defs |-> <<>>, grads |-> <<>>,
            Titles |-> <<>>, Descriptions |-> <<>>, Transform |-> Identity]

NewCursor(errMode) ==
    [styleStack |-> InitStyleStack, errorMode |-> errMode,
     inDefs |-> FALSE, inGrad |-> FALSE, inTitleText |-> FALSE, inDescText |-> FALSE,
     currentDef |-> <<>>, grad |-> NoGradient]

NoAttr == Attr("", "", "", FALSE)
Token(kind, name, attr, reported) ==
    [kind |-> kind, name |-> name, attr |-> attr, reported |-> reported]
NoToken == Token("none", "", NoAttr, "nil")

\* decoder.Token() keeps a stack of the open elements: an end-tag is
\* delivered only for the innermost open element, and io.EOF only when no
\* element is open; anything else is a syntax error.
CanDeliverEnd(d) == Len(d.stack) > 0
CanDeliverEOF(d) == Len(d.stack) = 0

\* cursor.styleStack = cursor.styleStack[:len(cursor.styleStack)-1]
\* (preceded by three faulty pops: none, two frames, the frame under the top)
PopStyleKeepAll(s) == s
PopStyleTwo(s) == SubSeq(s, 1, Len(s) - 2)
PopStyleUnderTop(s) == IF Len(s) >= 2 THEN SubSeq(s, 1, Len(s) - 2) \o <<Last(s)>> ELSE <<>>
PopStyle(s) == SubSeq(s, 1, Len(s) - 1)

\* if err != nil { return icon, err } after pushStyle and after readStartElement
\* (preceded by the faulty variant that goes on after an error)
ContinueAlways(e) == "loop"
AfterStartElement(e) == IF e # "nil" THEN "returned" ELSE "loop"

\* if err != nil { if err == io.EOF { break }; return icon, err } ... return icon, nil
\* (preceded by the faulty variant that treats every error as io.EOF)
ReturnNilAlways(e) == "nil"
ReturnedError(e) == IF e = "EOF" THEN "nil" ELSE e

NoGhost == [frames |-> <<>>, errs |-> 0, shapes |-> 0,
            sinceTitle |-> FALSE, sinceDesc |-> FALSE]

ParserInit ==
    /\ pc = "loop"
    /\ err = "nil"
    /\ icon = NewIcon
    /\ \E m \in ErrorModes : cursor = NewCursor(m)
    /\ decoder = [stack |-> <<>>, ntok |-> 0]
    /\ lastTok = NoToken
    /\ ghost = NoGhost

Delivered(d) == [d EXCEPT !.ntok = d.ntok + 1]

StartElement ==
    /\ pc = "loop"
    /\ decoder.ntok < MaxTokens
    /\ Len(decoder.stack) < MaxDepth
    /\ \E se \in StartTokens :
         LET pushed == pushStyle(cursor, se.attr)
             read   == readStartElement(pushed.cursor, icon, se)
             e      == IF pushed.err # "nil" THEN pushed.err ELSE read.err
         IN /\ decoder' = [Delivered(decoder) EXCEPT !.stack = Append(decoder.stack, se.name)]
            /\ lastTok' = Token("start", se.name, se.attr, e)
            /\ ghost' = [frames |-> IF pushed.err = "nil"
                                    THEN Append(ghost.frames, Last(pushed.cursor.styleStack))
                                    ELSE ghost.frames,
                         errs |-> IF e = "nil" THEN ghost.errs ELSE ghost.errs + 1,
                         shapes |-> IF e = "nil" /\ se.name \in PathProducing /\ ~Captured(cursor, se)
                                    THEN ghost.shapes + 1 ELSE ghost.shapes,
                         sinceTitle |-> (e = "nil" /\ se.name = "title") \/ ghost.sinceTitle,
                         sinceDesc |-> (e = "nil" /\ se.name = "desc") \/ ghost.sinceDesc]
            /\ cursor' = IF pushed.err # "nil" THEN pushed.cursor ELSE read.cursor
            /\ icon' = IF pushed.err # "nil" THEN icon ELSE read.icon
            /\ pc' = AfterStartElement(e)
            /\ err' = IF AfterStartElement(e) = "returned" THEN e ELSE err
    /\ UNCHANGED <<pathVars, renderVars>>

\* case "g": if cursor.inDefs { cursor.currentDef = append(..., definition{Tag: "endg"}) }
\* (preceded by the faulty variant that appends the marker everywhere)
CloseGroupAlways(c) == [c EXCEPT !.currentDef = Append(c.currentDef, [ID |-> "", Tag |-> "endg"])]
CloseGroup(c) ==
    IF c.inDefs
    THEN [c EXCEPT !.currentDef = Append(c.currentDef, [ID |-> "", Tag |-> "endg"])]
    ELSE c

\* cursor.icon.defs[cursor.currentDef[0].ID] = cursor.currentDef
\* (preceded by the faulty variant that keys the group by its first tag)
StoreDefUnderTag(defs, def) ==
    SelectSeq(defs, LAMBDA kv : kv[1] # def[1].Tag) \o <<<<def[1].Tag, def>>>>
StoreDef(defs, def) ==
    SelectSeq(defs, LAMBDA kv : kv[1] # def[1].ID) \o <<<<def[1].ID, def>>>>

EndSwitch(c, ic, name) ==
    CASE name = "g" -> [icon |-> ic, cursor |-> CloseGroup(c)]
      [] name = "title" -> [icon |-> ic, cursor |-> [c EXCEPT !.inTitleText = FALSE]]
      [] name = "desc" -> [icon |-> ic, cursor |-> [c EXCEPT !.inDescText = FALSE]]
      [] name = "defs" ->
           IF Len(c.currentDef) > 0
           THEN [icon |-> [ic EXCEPT !.defs = StoreDef(ic.defs, c.currentDef)],
                 cursor |-> [c EXCEPT !.currentDef = <<>>, !.inDefs = FALSE]]
           ELSE [icon |-> ic, cursor |-> [c EXCEPT !.inDefs = FALSE]]
      [] name \in GradientElements -> [icon |-> ic, cursor |-> [c EXCEPT !.inGrad = FALSE]]
      [] OTHER -> [icon |-> ic, cursor |-> c]

EndElement ==
    /\ pc = "loop"
    /\ decoder.ntok < MaxTokens
    /\ CanDeliverEnd(decoder)
    /\ LET name == IF Len(decoder.stack) > 0 THEN Last(decoder.stack) ELSE "g"
       IN /\ decoder' = [Delivered(decoder) EXCEPT !.stack = Front(decoder.stack)]
          /\ lastTok' = Token("end", name, NoAttr, "nil")
          /\ ghost' = [ghost EXCEPT !.frames = Front(ghost.frames),
                                     !.sinceTitle = @ /\ name # "title",
                                     !.sinceDesc = @ /\ name # "desc"]
          /\ IF Len(cursor.styleStack) = 0
             THEN /\ pc' = "panic"
                  /\ UNCHANGED <<cursor, icon, err>>
             ELSE LET popped == [cursor EXCEPT !.styleStack = PopStyle(cursor.styleStack)]
                      done   == EndSwitch(popped, icon, name)
                  IN /\ cursor' = done.cursor
                     /\ icon' = done.icon
                     /\ UNCHANGED <<pc, err>>
    /\ UNCHANGED <<pathVars, renderVars>>

\* icon.Titles[len(icon.Titles)-1] += string(se)
\* (preceded by the faulty variant that appends to the first entry)
AppendToFirst(texts, s) == [texts EXCEPT ![1] = texts[1] \o s]
AppendToLast(texts, s) == [texts EXCEPT ![Len(texts)] = texts[Len(texts)] \o s]

CharData ==
    /\ pc = "loop"
    /\ decoder.ntok < MaxTokens
    /\ \E s \in CharDatas :
         /\ decoder' = Delivered(decoder)
         /\ lastTok' = Token("chardata", "", NoAttr, "nil")
         /\ IF (cursor.inTitleText /\ Len(icon.Titles) = 0)
               \/ (cursor.inDescText /\ Len(icon.Descriptions) = 0)
            THEN /\ pc' = "panic"
                 /\ UNCHANGED icon
            ELSE /\ icon' = [icon EXCEPT
                       !.Titles = IF cursor.inTitleText THEN AppendToLast(@, s) ELSE @,
                       !.Descriptions = IF cursor.inDescText THEN AppendToLast(@, s) ELSE @]
                 /\ UNCHANGED pc
    /\ UNCHANGED <<err, cursor, ghost, pathVars, renderVars>>

\* A comment, directive or processing instruction: no case of the switch.
OtherToken ==
    /\ pc = "loop"
    /\ decoder.ntok < MaxTokens
    /\ decoder' = Delivered(decoder)
    /\ lastTok' = Token("other", "", NoAttr, "nil")
    /\ UNCHANGED <<pc, err, icon, cursor, ghost, pathVars, renderVars>>

\* decoder.Token() fails: a syntax error, an unexpected EOF inside an open
\* element, or a read error of the stream.
TokenError ==
    /\ pc = "loop"
    /\ \E e \in {"SyntaxError", "ReadError"} :
         /\ pc' = "returned"
         /\ err' = ReturnedError(e)
         /\ lastTok' = Token("error", e, NoAttr, "nil")
    /\ UNCHANGED <<icon, cursor, decoder, ghost, pathVars, renderVars>>

EndOfInput ==
    /\ pc = "loop"
    /\ CanDeliverEOF(decoder)
    /\ pc' = "returned"
    /\ err' = ReturnedError("EOF")
    /\ lastTok' = Token("EOF", "", NoAttr, "nil")
    /\ UNCHANGED <<icon, cursor, decoder, ghost, pathVars, renderVars>>

PathOff ==
    /\ path = <<>> /\ phase = "off" /\ svgText = <<>> /\ reparsed = [err |-> "nil", ops |-> <<>>]
    /\ M = Identity /\ idx = 0 /\ calls = <<>>
    /\ recorder = [p |-> <<>>, call |-> [fn |-> "none", closeLoop |-> FALSE, pts |-> <<>>]]

RenderOff == render = <<>> /\ shared = Identity /\ driver = <<>>

Init == ParserInit /\ PathOff /\ RenderOff

Next ==
    \/ StartElement
    \/ EndElement
    \/ CharData
    \/ OtherToken
    \/ TokenError
    \/ EndOfInput

Spec == Init /\ [][Next]_vars

(***************************************************************************)
(* Paths.  A point is a fixed.Point26_6: X and Y count 1/64 units.  An     *)
(* operation is OpMoveTo (one point), OpLineTo (one), OpQuadTo (two),      *)
(* OpCubicTo (three) or OpClose (none).                                    *)
(***************************************************************************)
MaxPathLen == 2

Pt(x, y) == [X |-> x, Y |-> y]
Points == {Pt(2, -65), Pt(100, 0)}

OpMoveTo(a) == [op |-> "MoveTo", pts |-> <<a>>]
OpLineTo(b) == [op |-> "LineTo", pts |-> <<b>>]
OpQuadTo(b, c) == [op |-> "QuadTo", pts |-> <<b, c>>]
OpCubicTo(b, c, d) == [op |-> "CubicTo", pts |-> <<b, c, d>>]
OpClose == [op |-> "Close", pts |-> <<>>]

\* The Path methods that make a Path a recording drawer.
PathStart(p, a) == Append(p, OpMoveTo(a))
PathLine(p, b) == Append(p, OpLineTo(b))
PathQuadBezier(p, b, c) == Append(p, OpQuadTo(b, c))
PathCubeBezier(p, b, c, d) == Append(p, OpCubicTo(b, c, d))
\* (Stop is preceded by the faulty variant that closes the loop whatever it is told)
PathStopAlwaysCloses(p, closeLoop) == Append(p, OpClose)
PathStop(p, closeLoop) == IF closeLoop THEN Append(p, OpClose) ELSE p
PathClear(p) == SubSeq(p, 1, 0)

(***************************************************************************)
(* fmt.Sprintf("%4.3f", float32(k)/64): k/64 is exact in a float32 for the *)
(* coordinates of the model, and the decimal conversion rounds the exact   *)
(* value to three fractional digits, a tie going to the even digit.  The   *)
(* width 4 never pads: the shortest output, "0.000", has five characters.  *)
(***************************************************************************)
DigitChars == <<"0", "1", "2", "3", "4", "5", "6", "7", "8", "9">>
DigitChar(d) == DigitChars[d + 1]
IsDigit(c) == \E d \in 0..9 : DigitChars[d + 1] = c
DigitVal(c) == CHOOSE d \in 0..9 : DigitChars[d + 1] = c

Abs(k) == IF k < 0 THEN -k ELSE k

RECURSIVE NatToChars(_)
NatToChars(n) ==
    IF n < 10 THEN <<DigitChar(n)>>
    ELSE NatToChars(n \div 10) \o <<DigitChar(n % 10)>>

\* |k|/64 in thousandths, rounded half to even: |k| * 1000 / 64 = |k| * 125 / 8.
RoundedMilli(k) ==
    LET n == Abs(k) * 125
        q == n \div 8
        r == n % 8
    IN IF r > 4 \/ (r = 4 /\ q % 2 = 1) THEN q + 1 ELSE q

FormatCoord(k) ==
    LET milli == RoundedMilli(k)
        frac  == milli % 1000
    IN (IF k < 0 THEN <<"-">> ELSE <<>>)
       \o NatToChars(milli \div 1000)
       \o <<".">>
       \o <<DigitChar(frac \div 100), DigitChar((frac \div 10) % 10), DigitChar(frac % 10)>>

RECURSIVE FormatPoints(_)
\* The coordinates of the points, each X and Y formatted, joined by commas.
FormatPoints(pts) ==
    IF Len(pts) = 0 THEN <<>>
    ELSE FormatCoord(pts[1].X) \o <<",">> \o FormatCoord(pts[1].Y)
         \o (IF Len(pts) = 1 THEN <<>> ELSE <<",">> \o FormatPoints(Tail(pts)))

\* The chunk ToSVGPath makes for one operation.
CubicChunk(o) == <<"C">> \o (<<"C">> \o FormatPoints(o.pts))

Chunk(o) ==
    CASE o.op = "MoveTo" -> <<"M">> \o FormatPoints(o.pts)
      [] o.op = "LineTo" -> <<"L">> \o FormatPoints(o.pts)
      [] o.op = "QuadTo" -> <<"Q">> \o FormatPoints(o.pts)
      [] o.op = "CubicTo" -> CubicChunk(o)
      [] o.op = "Close" -> <<"Z">>

RECURSIVE JoinSpace(_)
\* strings.Join(chunks, " ")
JoinSpace(chunks) ==
    IF Len(chunks) = 0 THEN <<>>
    ELSE IF Len(chunks) = 1 THEN chunks[1]
    ELSE chunks[1] \o <<" ">> \o JoinSpace(Tail(chunks))

ToSVGPath(p) == JoinSpace([i \in 1..Len(p) |-> Chunk(p[i])])

(***************************************************************************)
(* Reading the textual form back: chunks separated by single spaces, each a*)
(* command letter followed by comma-separated decimal coordinates, which   *)
(* are converted to 26.6 fixed point by truncation.                        *)
(***************************************************************************)
RECURSIVE Split(_, _)
\* The fields of s between the occurrences of sep (one field when there is none).
Split(s, sep) ==
    IF \A i \in 1..Len(s) : s[i] # sep THEN <<s>>
    ELSE LET i == CHOOSE j \in 1..Len(s) : s[j] = sep /\ \A k \in 1..(j - 1) : s[k] # sep
         IN <<SubSeq(s, 1, i - 1)>> \o Split(SubSeq(s, i + 1, Len(s)), sep)

RECURSIVE CharsToNat(_)
CharsToNat(cs) ==
    IF Len(cs) = 0 THEN 0
    ELSE CharsToNat(SubSeq(cs, 1, Len(cs) - 1)) * 10 + DigitVal(cs[Len(cs)])

\* A decimal literal: an optional sign, digits, a point, three digits.
IsNumber(cs) ==
    LET body  == IF Len(cs) > 0 /\ cs[1] = "-" THEN Tail(cs) ELSE cs
        parts == Split(body, ".")
    IN /\ Len(parts) = 2
       /\ Len(parts[1]) >= 1
       /\ Len(parts[2]) = 3
       /\ \A i \in 1..Len(parts[1]) : IsDigit(parts[1][i])
       /\ \A i \in 1..3 : IsDigit(parts[2][i])

ParseCoord(cs) ==
    LET neg   == cs[1] = "-"
        body  == IF neg THEN Tail(cs) ELSE cs
        parts == Split(body, ".")
        milli == CharsToNat(parts[1]) * 1000 + CharsToNat(parts[2])
        fixed == (milli * 64) \div 1000
    IN IF neg THEN -fixed ELSE fixed

LetterOf(op) ==
    CASE op = "MoveTo" -> "M" [] op = "LineTo" -> "L" [] op = "QuadTo" -> "Q"
      [] op = "CubicTo" -> "C" [] op = "Close" -> "Z"

NCoords(op) ==
    CASE op = "MoveTo" -> 2 [] op = "LineTo" -> 2 [] op = "QuadTo" -> 4
      [] op = "CubicTo" -> 6 [] op = "Close" -> 0

OpKinds == {"MoveTo", "LineTo", "QuadTo", "CubicTo", "Close"}

\* One chunk: the operation it denotes, or the operation "error".
OpError == [op |-> "error", pts |-> <<>>]

ParseChunk(ch) ==
    IF Len(ch) = 0 \/ ~(\E k \in OpKinds : LetterOf(k) = ch[1]) THEN OpError
    ELSE LET kind   == CHOOSE k \in OpKinds : LetterOf(k) = ch[1]
             fields == IF Len(ch) = 1 THEN <<>> ELSE Split(Tail(ch), ",")
         IN IF Len(fields) # NCoords(kind) \/ \E i \in 1..Len(fields) : ~IsNumber(fields[i])
            THEN OpError
            ELSE [op |-> kind,
                  pts |-> [j \in 1..(NCoords(kind) \div 2) |->
                              Pt(ParseCoord(fields[2 * j - 1]), ParseCoord(fields[2 * j]))]]

\* The operations of the text, with the error the parse ended in ("nil" when none).
ParsePath(text) ==
    IF Len(text) = 0 THEN [err |-> "nil", ops |-> <<>>]
    ELSE LET chunks == Split(text, " ")
             ops    == [i \in 1..Len(chunks) |-> ParseChunk(chunks[i])]
         IN IF \E i \in 1..Len(ops) : ops[i].op = "error"
            THEN [err |-> "PathParseError", ops |-> <<>>]
            ELSE [err |-> "nil", ops |-> ops]

(***************************************************************************)
(* Replaying a path to a driver handle.  A driver call is recorded with    *)
(* its name and its arguments.                                             *)
(***************************************************************************)
CallStop(closeLoop) == [fn |-> "Stop", closeLoop |-> closeLoop, pts |-> <<>>]
CallStart(a) == [fn |-> "Start", closeLoop |-> FALSE, pts |-> <<a>>]
CallLine(b) == [fn |-> "Line", closeLoop |-> FALSE, pts |-> <<b>>]
CallQuadBezier(b, c) == [fn |-> "QuadBezier", closeLoop |-> FALSE, pts |-> <<b, c>>]
CallCubeBezier(b, c, d) == [fn |-> "CubeBezier", closeLoop |-> FALSE, pts |-> <<b, c, d>>]
CallClear == [fn |-> "Clear", closeLoop |-> FALSE, pts |-> <<>>]
CallNone == [fn |-> "none", closeLoop |-> FALSE, pts |-> <<>>]

\* A *Path as the Drawer of a replay: the method a call names, applied.
Record(p, c) ==
    CASE c.fn = "Start" -> PathStart(p, c.pts[1])
      [] c.fn = "Line" -> PathLine(p, c.pts[1])
      [] c.fn = "QuadBezier" -> PathQuadBezier(p, c.pts[1], c.pts[2])
      [] c.fn = "CubeBezier" -> PathCubeBezier(p, c.pts[1], c.pts[2], c.pts[3])
      [] c.fn = "Stop" -> PathStop(p, c.closeLoop)
      [] c.fn = "Clear" -> PathClear(p)
      [] OTHER -> p

RECURSIVE Recorded(_, _)
Recorded(p, cs) == IF cs = <<>> THEN p ELSE Recorded(Record(p, Head(cs)), Tail(cs))

NewRecorder == [p |-> <<>>, call |-> CallNone]

\* Matrix2D applied to a fixed point: the translation counts whole units, 64 to a unit.
TFixed(m, a) == Pt(m.A * a.X + m.E * 64, m.D * a.Y + m.F * 64)
trMove(m, o) == TFixed(m, o.pts[1])
trLine(m, o) == TFixed(m, o.pts[1])
trQuad(m, o) == <<TFixed(m, o.pts[1]), TFixed(m, o.pts[2])>>
trCubic(m, o) == <<TFixed(m, o.pts[1]), TFixed(m, o.pts[2]), TFixed(m, o.pts[3])>>

\* The drawTo methods (preceded by a faulty OpMoveTo.drawTo that closes the loop).
MoveToClosesLoop(o, m) == <<CallStop(TRUE), CallStart(trMove(m, o))>>
OpMoveTo_drawTo(o, m) == <<CallStop(FALSE), CallStart(trMove(m, o))>>
OpLineTo_drawTo(o, m) == <<CallLine(trLine(m, o))>>
OpQuadTo_drawTo(o, m) == <<CallQuadBezier(trQuad(m, o)[1], trQuad(m, o)[2])>>
OpCubicTo_drawTo(o, m) == <<CallCubeBezier(trCubic(m, o)[1], trCubic(m, o)[2], trCubic(m, o)[3])>>
OpClose_drawTo(o, m) == <<CallStop(TRUE)>>

drawTo(o, m) ==
    CASE o.op = "MoveTo" -> OpMoveTo_drawTo(o, m)
      [] o.op = "LineTo" -> OpLineTo_drawTo(o, m)
      [] o.op = "QuadTo" -> OpQuadTo_drawTo(o, m)
      [] o.op = "CubicTo" -> OpCubicTo_drawTo(o, m)
      [] o.op = "Close" -> OpClose_drawTo(o, m)

Matrices == {Identity, Mult(Translate1, Scale2)}

(***************************************************************************)
(* The path machine: a path is built through the recorder methods, then    *)
(* either rendered to text and read back, or replayed to a driver.         *)
(***************************************************************************)
ParserOff ==
    /\ pc = "off" /\ err = "nil" /\ icon = NewIcon /\ cursor = NewCursor("IgnoreErrorMode")
    /\ decoder = [stack |-> <<>>, ntok |-> 0] /\ lastTok = NoToken
    /\ ghost = NoGhost

PathInit ==
    /\ path = <<>> /\ phase = "build" /\ svgText = <<>> /\ reparsed = [err |-> "nil", ops |-> <<>>]
    /\ M = Identity /\ idx = 0 /\ calls = <<>> /\ recorder = NewRecorder

Building == phase = "build" /\ Len(path) < MaxPathLen
Built(p, call) ==
    /\ path' = p
    /\ recorder' = [recorder EXCEPT !.call = call]
    /\ UNCHANGED <<phase, svgText, reparsed, M, idx, calls, parserVars, renderVars>>

BuildStart == Building /\ \E a \in Points : Built(PathStart(path, a), CallStart(a))
BuildLine == Building /\ \E b \in Points : Built(PathLine(path, b), CallLine(b))
BuildQuadBezier ==
    Building /\ \E b, c \in Points : Built(PathQuadBezier(path, b, c), CallQuadBezier(b, c))
BuildCubeBezier ==
    Building /\ \E b, c, d \in Points :
                   Built(PathCubeBezier(path, b, c, d), CallCubeBezier(b, c, d))
BuildStop ==
    Building /\ \E closeLoop \in BOOLEAN : Built(PathStop(path, closeLoop), CallStop(closeLoop))
BuildClear == phase = "build" /\ Built(PathClear(path), CallClear)

Serialize ==
    /\ phase = "build"
    /\ phase' = "text"
    /\ svgText' = ToSVGPath(path)
    /\ recorder' = NewRecorder
    /\ UNCHANGED <<path, reparsed, M, idx, calls, parserVars, renderVars>>

Reparse ==
    /\ phase = "text"
    /\ phase' = "parsed"
    /\ reparsed' = ParsePath(svgText)
    /\ UNCHANGED <<path, svgText, M, idx, calls, recorder, parserVars, renderVars>>

BeginReplay ==
    /\ phase = "build"
    /\ phase' = "replay"
    /\ \E m \in Matrices : M' = m
    /\ recorder' = NewRecorder
    /\ UNCHANGED <<path, svgText, reparsed, idx, calls, parserVars, renderVars>>

\* for _, op := range path { op.drawTo(d, M) }
ReplayStep ==
    /\ phase = "replay"
    /\ idx < Len(path)
    /\ idx' = idx + 1
    /\ calls' = calls \o drawTo(path[idx + 1], M)
    /\ recorder' = [recorder EXCEPT !.p = Recorded(@, drawTo(path[idx + 1], M))]
    /\ UNCHANGED <<path, phase, svgText, reparsed, M, parserVars, renderVars>>

InitPath == ParserOff /\ PathInit /\ RenderOff

NextPath ==
    \/ BuildStart
    \/ BuildLine
    \/ BuildQuadBezier
    \/ BuildCubeBezier
    \/ BuildStop
    \/ BuildClear
    \/ Serialize
    \/ Reparse
    \/ BeginReplay
    \/ ReplayStep

SpecPath == InitPath /\ [][NextPath]_vars

(***************************************************************************)
(* The render machine: two calls of rasterIcon on one parsed icon, each    *)
(* with its own size, image, scanner and driver, running concurrently.     *)
(* SetTarget stores the viewport transform in the icon's Transform field;  *)
(* the store of the matrix is not atomic, so it is modelled field by       *)
(* field; Draw reads the field back.  The icon's view box is 1 by 1, so    *)
(* the transform for a w by h target is the scale by w and h.              *)
(***************************************************************************)
Renders == {1, 2}
Sizes == {1, 2, 3}

TargetTransform(w, h) == [A |-> w, D |-> h, E |-> 0, F |-> 0]

RenderInit ==
    /\ shared = Identity
    /\ driver = <<>>
    /\ \E w1, w2 \in Sizes :
         render = <<[w |-> w1, h |-> w1, at |-> "SetTarget", drew |-> Identity],
                    [w |-> w2, h |-> w2, at |-> "SetTarget", drew |-> Identity]>>

Others == UNCHANGED <<parserVars, pathVars, driver>>

\* icon.SetTarget(0, 0, float64(w), float64(h)): the first half of the store.
SetTargetBegin ==
    \E r \in Renders :
       /\ render[r].at = "SetTarget"
       /\ shared' = [shared EXCEPT !.A = TargetTransform(render[r].w, render[r].h).A,
                                   !.E = 0]
       /\ render' = [render EXCEPT ![r].at = "SetTargetEnd"]
       /\ Others

\* The second half of the store.
SetTargetEnd ==
    \E r \in Renders :
       /\ render[r].at = "SetTargetEnd"
       /\ shared' = [shared EXCEPT !.D = TargetTransform(render[r].w, render[r].h).D,
                                   !.F = 0]
       /\ render' = [render EXCEPT ![r].at = "Draw"]
       /\ Others

\* renderer := NewDriver(w, h, scanner); icon.Draw(renderer, 1.0)
Draw ==
    \E r \in Renders :
       /\ render[r].at = "Draw"
       /\ render' = [render EXCEPT ![r].at = "done", ![r].drew = shared]
       /\ UNCHANGED shared
       /\ Others

InitRender == ParserOff /\ PathOff /\ RenderInit

NextRender ==
    \/ SetTargetBegin
    \/ SetTargetEnd
    \/ Draw

SpecRender == InitRender /\ [][NextRender]_vars

(***************************************************************************)
(* The driver machine: one svgraster.Driver.  Its dasher, and the filler   *)
(* inside the dasher, draw through one scanner, which holds the extent of  *)
(* the geometry streamed so far and the colour it was last given.  A       *)
(* float64 that is a count of 1/64 units divided by 64 is kept as the      *)
(* exact fraction num/den.                                                 *)
(***************************************************************************)
MaxDraws == 2

Frac(num, den) == [num |-> num, den |-> den]
Whole(n) == Frac(n, 1)
FracSub(a, b) == Frac(a.num * b.den - b.num * a.den, a.den * b.den)
FracEq(a, b) == a.num * b.den = b.num * a.den
Div64(k) == Frac(k, 64)

Rect(minX, minY, maxX, maxY) == [Min |-> Pt(minX, minY), Max |-> Pt(maxX, maxY)]
EmptyExtent == Rect(0, 0, 0, 0)
Extents == {Rect(640, 640, 1280, 1920), Rect(650, -64, 700, 0)}

BoundsOf(x, y, w, h) == [X |-> x, Y |-> y, W |-> w, H |-> h]
UnitBounds == BoundsOf(Whole(0), Whole(0), Whole(1), Whole(1))

PlainColor(c) == [kind |-> "PlainColor", color |-> c]
Gradient(units, direction) ==
    [kind |-> "Gradient", Units |-> units, Direction |-> direction, Bounds |-> UnitBounds,
     Stops |-> <<[Offset |-> 0, StopColor |-> "red"], [Offset |-> 1, StopColor |-> "blue"]>>,
     Spread |-> "PadSpread"]
Linear == [kind |-> "Linear", v |-> <<0, 0, 1, 0>>]
Radial == [kind |-> "Radial", v |-> <<1, 1, 1, 1, 1, 1>>]

Patterns ==
    {PlainColor("red"),
     Gradient("ObjectBoundingBox", Linear),
     Gradient("ObjectBoundingBox", Radial),
     Gradient("UserSpaceOnUse", Linear)}

Opacities == {1}

NilHandle == [nil |-> TRUE, kind |-> "", dasher |-> 0]
FillerOf(dasher) == [nil |-> FALSE, kind |-> "filler", dasher |-> dasher]
StrokerOf(dasher) == [nil |-> FALSE, kind |-> "stroker", dasher |-> dasher]

\* Driver.SetupDrawers (preceded by a faulty variant that always hands out a stroker).
SetupDrawersAlwaysStroker(rd, willFill, willStroke) ==
    [f |-> IF willFill THEN FillerOf(rd.dasher) ELSE NilHandle,
     s |-> StrokerOf(rd.dasher)]
SetupDrawers(rd, willFill, willStroke) ==
    [f |-> IF willFill THEN FillerOf(rd.dasher) ELSE NilHandle,
     s |-> IF willStroke THEN StrokerOf(rd.dasher) ELSE NilHandle]

toRasterxGradient(grad) ==
    [kind |-> "rasterx.Gradient",
     Points |-> IF grad.Direction.kind = "Linear"
                THEN <<grad.Direction.v[1], grad.Direction.v[2], grad.Direction.v[3],
                       grad.Direction.v[4], 0>>
                ELSE <<grad.Direction.v[1], grad.Direction.v[2], grad.Direction.v[3],
                       grad.Direction.v[4], grad.Direction.v[5]>>,
     Stops |-> grad.Stops,
     Bounds |-> grad.Bounds,
     Spread |-> grad.Spread,
     Units |-> grad.Units,
     IsRadial |-> grad.Direction.kind = "Radial"]

\* The bounds the bounding-box branch of setColorFromPattern computes
\* (preceded by a faulty variant that takes the maximum for the size).
BoundsOfExtentMaxAsSize(fRect) ==
    BoundsOf(Div64(fRect.Min.X), Div64(fRect.Min.Y), Div64(fRect.Max.X), Div64(fRect.Max.Y))
BoundsOfExtent(fRect) ==
    LET mnx == Div64(fRect.Min.X)
        mny == Div64(fRect.Min.Y)
        mxx == Div64(fRect.Max.X)
        mxy == Div64(fRect.Max.Y)
    IN BoundsOf(mnx, mny, FracSub(mxx, mnx), FracSub(mxy, mny))

\* The gradient setColorFromPattern works on: the type switch binds a copy
\* of the Gradient value, and the bounds are assigned to that copy.
ResolvedCopy(color, extent) ==
    IF color.Units = "ObjectBoundingBox"
    THEN [color EXCEPT !.Bounds = BoundsOfExtent(extent)]
    ELSE color

\* What the caller's Pattern value is after the call
\* (preceded by a faulty variant that resolves the caller's gradient in place).
CallerPatternResolvedInPlace(color, extent) ==
    IF color.kind = "Gradient" THEN ResolvedCopy(color, extent) ELSE color
CallerPatternAfter(color, extent) == color

\* setColorFromPattern: the colour given to scanner.SetColor and the
\* caller's pattern after the call.
setColorFromPattern(color, opacity, extent) ==
    [set |-> IF color.kind = "PlainColor"
             THEN [kind |-> "ApplyOpacity", color |-> color.color, opacity |-> opacity]
             ELSE [kind |-> "ColorFunction", opacity |-> opacity,
                   gradient |-> toRasterxGradient(ResolvedCopy(color, extent))],
     caller |-> CallerPatternAfter(color, extent)]

NoCall == [op |-> "none", willFill |-> FALSE, willStroke |-> FALSE, extent |-> EmptyExtent]

DriverInit ==
    \E pat \in Patterns :
       driver = [dasher |-> 1, extent |-> EmptyExtent, color |-> [kind |-> "none"],
                 f |-> NilHandle, s |-> NilHandle, pattern |-> pat, draws |-> 0,
                 last |-> NoCall]

DriverOthers == UNCHANGED <<parserVars, pathVars, render, shared>>

\* f, s := driver.SetupDrawers(willFill, willStroke)
SetupDrawersCall ==
    /\ driver.draws < MaxDraws
    /\ \E willFill, willStroke \in BOOLEAN :
         LET got == SetupDrawers([dasher |-> driver.dasher], willFill, willStroke)
         IN driver' = [driver EXCEPT !.f = got.f, !.s = got.s,
                          !.last = [op |-> "SetupDrawers", willFill |-> willFill,
                                    willStroke |-> willStroke, extent |-> driver.extent]]
    /\ DriverOthers

\* Path operations streamed to a handle grow the scanner's extent.
StreamGeometry ==
    /\ driver.draws < MaxDraws
    /\ ~(driver.f.nil /\ driver.s.nil)
    /\ \E e \in Extents :
         driver' = [driver EXCEPT !.extent = e,
                       !.last = [op |-> "stream", willFill |-> FALSE, willStroke |-> FALSE,
                                 extent |-> e]]
    /\ DriverOthers

DrawWith(handle, op) ==
    /\ driver.draws < MaxDraws
    /\ ~handle.nil
    /\ \E opacity \in Opacities :
         LET done == setColorFromPattern(driver.pattern, opacity, driver.extent)
         IN driver' = [driver EXCEPT !.color = done.set, !.pattern = done.caller,
                          !.extent = EmptyExtent, !.draws = @ + 1,
                          !.last = [op |-> op, willFill |-> FALSE, willStroke |-> FALSE,
                                    extent |-> driver.extent]]
    /\ DriverOthers

\* filler.Draw: setColorFromPattern(color, opacity, f.Scanner); f.Filler.Draw()
FillerDraw == DrawWith(driver.f, "filler.Draw")

\* stroker.Draw: setColorFromPattern(color, opacity, s.Scanner); s.Dasher.Draw()
StrokerDraw == DrawWith(driver.s, "stroker.Draw")

InitDriver ==
    /\ ParserOff /\ PathOff
    /\ render = <<>> /\ shared = Identity
    /\ DriverInit

NextDriver ==
    \/ SetupDrawersCall
    \/ StreamGeometry
    \/ FillerDraw
    \/ StrokerDraw

SpecDriver == InitDriver /\ [][NextDriver]_vars

(***************************************************************************)
(* Claims about paths, checked under SpecPath.                             *)
(***************************************************************************)
IsImplicitStop(c) == c.fn = "Stop" /\ ~c.closeLoop

\* C7: a replay issues its driver calls in the order of the operations, one
\* group per operation: leaving the Stop(false) calls out, the i-th call is
\* the one of the i-th operation (Start, Line, QuadBezier, CubeBezier with
\* the transformed points, Stop(true) for Close); every Start directly
\* follows a Stop(false) and every Stop(false) directly precedes a Start,
\* so a MoveTo never issues Stop(true).
C7_ReplayOneGroupPerOperation ==
    phase = "replay" =>
        LET kept == SelectSeq(calls, LAMBDA c : ~IsImplicitStop(c))
        IN /\ Len(kept) = idx
           /\ \A i \in 1..idx :
                LET o == path[i]
                    c == kept[i]
                IN /\ c.fn = (CASE o.op = "MoveTo" -> "Start"
                                [] o.op = "LineTo" -> "Line"
                                [] o.op = "QuadTo" -> "QuadBezier"
                                [] o.op = "CubicTo" -> "CubeBezier"
                                [] o.op = "Close" -> "Stop")
                   /\ c.closeLoop = (o.op = "Close")
                   /\ c.pts = [j \in 1..Len(o.pts) |-> TFixed(M, o.pts[j])]
           /\ \A j \in 1..Len(calls) :
                /\ calls[j].fn = "Start" => (j > 1 /\ IsImplicitStop(calls[j - 1]))
                /\ IsImplicitStop(calls[j]) => (j < Len(calls) /\ calls[j + 1].fn = "Start")

\* A MoveTo was replayed after a LineTo-less first subpath, under a
\* transform that is not the identity.
C7_Witness ==
    /\ phase = "replay"
    /\ idx = 2
    /\ path[1].op = "MoveTo"
    /\ path[2].op = "MoveTo"
    /\ M # Identity
    /\ Len(calls) = 4

\* C9: the text has one chunk per operation, in order, separated by single
\* spaces (no text for the empty path), and each chunk is the one command
\* letter of its operation followed by its coordinates: 2 for M and L, 4
\* for Q, 6 for C, none for Z.
C9_OneLetterThenCoordinates ==
    phase = "text" =>
        IF Len(path) = 0 THEN svgText = <<>>
        ELSE LET chunks == Split(svgText, " ")
             IN /\ Len(chunks) = Len(path)
                /\ \A i \in 1..Len(path) :
                     LET ch     == chunks[i]
                         fields == IF Len(ch) <= 1 THEN <<>> ELSE Split(Tail(ch), ",")
                     IN /\ Len(ch) >= 1
                        /\ ch[1] = LetterOf(path[i].op)
                        /\ Len(fields) = NCoords(path[i].op)
                        /\ \A f \in 1..Len(fields) : IsNumber(fields[f])

WellFormedPath(p) == Len(p) = 0 \/ p[1].op = "MoveTo"

\* C10: the text of a well-formed path reads back as the same operations in
\* the same order, every coordinate within one 1/64 step of the original.
C10_TextRoundTrip ==
    (phase = "parsed" /\ WellFormedPath(path)) =>
        /\ reparsed.err = "nil"
        /\ Len(reparsed.ops) = Len(path)
        /\ \A i \in 1..Len(path) :
             /\ reparsed.ops[i].op = path[i].op
             /\ Len(reparsed.ops[i].pts) = Len(path[i].pts)
             /\ \A j \in 1..Len(path[i].pts) :
                  /\ Abs(reparsed.ops[i].pts[j].X - path[i].pts[j].X) <= 1
                  /\ Abs(reparsed.ops[i].pts[j].Y - path[i].pts[j].Y) <= 1

\* One operation of the given variant, on the given points, was appended.
AppendedOne(variant, pts) ==
    /\ Len(path') = Len(path) + 1
    /\ SubSeq(path', 1, Len(path)) = path
    /\ Last(path').op = variant
    /\ Last(path').pts = pts

\* C19: a method called on the Path being built appends exactly one
\* operation of the matching variant for Start, Line, QuadBezier and
\* CubeBezier, one Close for Stop(true), nothing for Stop(false), and Clear
\* leaves the Path empty; and a replay under the identity transform into an
\* initially empty Path has recorded, after each operation, the operations
\* replayed so far, hence the whole path at its end.
C19_RecorderIsFaithful ==
    /\ [][(phase = "build" /\ phase' = "build") =>
            LET c == recorder'.call
            IN CASE c.fn = "Start" -> AppendedOne("MoveTo", c.pts)
                 [] c.fn = "Line" -> AppendedOne("LineTo", c.pts)
                 [] c.fn = "QuadBezier" -> AppendedOne("QuadTo", c.pts)
                 [] c.fn = "CubeBezier" -> AppendedOne("CubicTo", c.pts)
                 [] c.fn = "Stop" -> IF c.closeLoop THEN AppendedOne("Close", <<>>)
                                     ELSE path' = path
                 [] c.fn = "Clear" -> Len(path') = 0
                 [] OTHER -> FALSE]_vars
    /\ [](phase = "replay" /\ M = Identity =>
            /\ recorder.p = SubSeq(path, 1, idx)
            /\ idx = Len(path) => recorder.p = path)

\* A replay under the identity transform of a subpath that is opened and
\* closed has reached its end.
C19_Witness ==
    /\ phase = "replay"
    /\ M = Identity
    /\ idx = Len(path)
    /\ Len(path) = 2
    /\ path[1].op = "MoveTo"
    /\ path[2].op = "Close"
    /\ recorder.p = path
    /\ Len(calls) = 3

(***************************************************************************)
(* Claims about rendering, checked under SpecRender.                       *)
(***************************************************************************)
\* C8: each of two concurrent renders of one icon draws with the target
\* viewport transform of its own call.
C8_RenderDrawsWithOwnTarget ==
    \A r \in Renders :
        render[r].at = "done" => render[r].drew = TargetTransform(render[r].w, render[r].h)

(***************************************************************************)
(* Claims about the raster driver, checked under SpecDriver.               *)
(***************************************************************************)
IsDraw(call) == call.op \in {"filler.Draw", "stroker.Draw"}

\* C11: after SetupDrawers(willFill, willStroke) the filler is non-nil
\* exactly when willFill holds and the stroker exactly when willStroke
\* holds, and a handle handed out is of its own kind on the driver's dasher.
C11_HandlesOnlyForRequested ==
    driver.last.op = "SetupDrawers" =>
        /\ ~driver.f.nil <=> driver.last.willFill
        /\ ~driver.s.nil <=> driver.last.willStroke
        /\ ~driver.f.nil => driver.f = FillerOf(driver.dasher)
        /\ ~driver.s.nil => driver.s = StrokerOf(driver.dasher)

\* A stroker alone was requested after a draw had been made with other handles.
C11_Witness ==
    /\ driver.last.op = "SetupDrawers"
    /\ ~driver.last.willFill
    /\ driver.last.willStroke
    /\ driver.f.nil
    /\ ~driver.s.nil
    /\ driver.draws = 1

\* The point of a box at the fraction 1/2 along one axis: origin + size / 2.
Midway(origin, size) ==
    Frac(2 * origin.num * size.den + size.num * origin.den, 2 * origin.den * size.den)

\* C12: a Draw with a bounding-box-relative gradient gives the scanner a
\* gradient whose bounds are origin = extent minimum / 64 and size =
\* (maximum - minimum) / 64, so the extent [10,10]-[20,30] gives origin
\* (10,10), size (10,20) and the midpoint (15,20) for the offset 0.5; with a
\* user-space gradient the bounds given are the ones the gradient had.
C12_BoundsFromExtent ==
    (IsDraw(driver.last) /\ driver.pattern.kind = "Gradient") =>
        LET b == driver.color.gradient.Bounds
            e == driver.last.extent
        IN IF driver.pattern.Units = "ObjectBoundingBox"
           THEN /\ FracEq(b.X, Frac(e.Min.X, 64))
                /\ FracEq(b.Y, Frac(e.Min.Y, 64))
                /\ FracEq(b.W, Frac(e.Max.X - e.Min.X, 64))
                /\ FracEq(b.H, Frac(e.Max.Y - e.Min.Y, 64))
                /\ e = Rect(10 * 64, 10 * 64, 20 * 64, 30 * 64) =>
                      /\ FracEq(b.X, Whole(10)) /\ FracEq(b.Y, Whole(10))
                      /\ FracEq(b.W, Whole(10)) /\ FracEq(b.H, Whole(20))
                      /\ FracEq(Midway(b.X, b.W), Whole(15))
                      /\ FracEq(Midway(b.Y, b.H), Whole(20))
           ELSE b = driver.pattern.Bounds

\* The filler drew a bounding-box-relative gradient over the extent [10,10]-[20,30].
C12_Witness ==
    /\ driver.last.op = "filler.Draw"
    /\ driver.last.extent = Rect(640, 640, 1280, 1920)
    /\ driver.pattern.kind = "Gradient"
    /\ driver.pattern.Units = "ObjectBoundingBox"
    /\ driver.color.kind = "ColorFunction"

\* C18: no step of the driver, a Draw included, changes the caller's
\* pattern: its bounds, stops and units are after the call what they were.
C18_DrawKeepsCallersGradient ==
    [][driver'.pattern = driver.pattern]_vars

\* Two draws were made with a bounding-box-relative gradient, the last over
\* a non-empty extent: the scanner's gradient has the resolved bounds, the
\* caller's gradient still has its own.
C18_Witness ==
    /\ driver.draws = 2
    /\ IsDraw(driver.last)
    /\ driver.last.extent # EmptyExtent
    /\ driver.pattern.kind = "Gradient"
    /\ driver.pattern.Units = "ObjectBoundingBox"
    /\ driver.pattern.Bounds = UnitBounds
    /\ driver.color.gradient.Bounds # driver.pattern.Bounds

(***************************************************************************)
(* Claims about ReadIconStream, checked under Spec.                        *)
(***************************************************************************)
\* C1: while no token has reported an error, the style-stack depth exceeds
\* its pre-parse depth by exactly the number of open elements (every
\* start-tag pushed one frame, recognized or not, every end-tag popped one),
\* so a balanced stream leaves the depth at its pre-parse value.
C1_DepthIsPreParsePlusOpen ==
    (ghost.errs = 0 /\ pc # "panic")
        => Len(cursor.styleStack) = Len(InitStyleStack) + Len(decoder.stack)

\* An end-tag was just handled inside an open, unrecognized element.
C1_Witness ==
    /\ lastTok.kind = "end"
    /\ Len(decoder.stack) = 2
    /\ decoder.stack[2] = "bogus"
    /\ Len(cursor.styleStack) = 3
    /\ pc = "loop"

\* C2 as stated: the depth is 0 before the first token and 0 at the end of
\* a balanced document.
C2_DepthZeroAtStartAndEnd ==
    /\ lastTok.kind = "none" => Len(cursor.styleStack) = 0
    /\ lastTok.kind = "EOF" => Len(cursor.styleStack) = 0

\* C2 amended: the depth is 1 (the root frame DefaultStyle alone) before the
\* first token and again at the end of a balanced document.
C2_RootFrameAtStartAndEnd ==
    /\ lastTok.kind = "none" => cursor.styleStack = <<DefaultStyle>>
    /\ lastTok.kind = "EOF" => cursor.styleStack = <<DefaultStyle>>

\* The end of a balanced document with nested elements and a shape in it.
C2_Witness ==
    /\ lastTok.kind = "EOF"
    /\ decoder.ntok >= 4
    /\ Len(icon.SVGPaths) > 0

\* C3: the pop of an end-tag never runs on an empty stack (a panic) and
\* never removes the root frame, whatever the decoder delivers.
C3_NeverPopsWithoutPush ==
    /\ ~(pc = "panic" /\ lastTok.kind = "end")
    /\ Len(cursor.styleStack) >= 1
    /\ cursor.styleStack[1] = DefaultStyle

\* A surplus end-tag after a balanced stream: the decoder reports a syntax
\* error where no element is open, and only the root frame is left.
C3_Witness ==
    /\ lastTok.kind = "error"
    /\ lastTok.name = "SyntaxError"
    /\ decoder.stack = <<>>
    /\ decoder.ntok >= 2
    /\ Len(cursor.styleStack) = 1

\* C4: the frames under the top are exactly the frames resolved at the
\* start-tags of the elements still open, so after an end-tag the top is
\* the frame that was on top before the matching start-tag; and an element
\* opened at the top level is resolved against the root frame only, so its
\* transform is its own attribute's and owes nothing to an earlier sibling.
C4_NoLeakBetweenSiblings ==
    (ghost.errs = 0 /\ pc # "panic") =>
        /\ cursor.styleStack = <<DefaultStyle>> \o ghost.frames
        /\ (lastTok.kind = "start" /\ Len(decoder.stack) = 1 /\ ~lastTok.attr.bad)
              => Last(cursor.styleStack).transform = TransformOf(lastTok.attr.transform)

\* A second sibling <g> with its own transform was opened after a first
\* sibling <g> with another transform was closed.
C4_Witness ==
    /\ lastTok.kind = "start"
    /\ lastTok.name = "g"
    /\ lastTok.attr.transform = "t2"
    /\ Len(decoder.stack) = 1
    /\ decoder.ntok = 3
    /\ Last(cursor.styleStack).transform = Scale2
    /\ pc = "loop"

\* C5: once the handling of a start-tag has reported an error, the parser
\* has returned that error and that start-tag is the last token handled;
\* under IgnoreErrorMode no start-tag reports an error and the display list
\* holds one item per recognized shape element seen, and nothing else.
C5_AbortOnStartError ==
    /\ ghost.errs > 0 =>
          /\ pc = "returned"
          /\ lastTok.kind = "start"
          /\ lastTok.reported # "nil"
          /\ err = lastTok.reported
          /\ ghost.errs = 1
    /\ (lastTok.kind = "start" /\ lastTok.name \notin Recognized
        /\ cursor.errorMode = "StrictErrorMode" /\ ~lastTok.attr.bad)
          => lastTok.reported = "UnrecognizedElement"
    /\ cursor.errorMode = "IgnoreErrorMode" =>
          /\ ghost.errs = 0
          /\ Len(icon.SVGPaths) = ghost.shapes
          /\ \A i \in 1..Len(icon.SVGPaths) : icon.SVGPaths[i].tag \in PathProducing

\* Under StrictErrorMode an unrecognized element after a shape aborted the
\* parse, the shape's item being all the display list holds.
C5_Witness ==
    /\ cursor.errorMode = "StrictErrorMode"
    /\ lastTok.kind = "start"
    /\ lastTok.name = "bogus"
    /\ err = "UnrecognizedElement"
    /\ pc = "returned"
    /\ Len(icon.SVGPaths) = 1

\* C6: a decoder error other than io.EOF makes ReadIconStream return that
\* error at once in every mode, the icon and the cursor left as the last
\* handled token left them; a nil error is returned only on io.EOF.
C6_TokenErrorIsFatal ==
    /\ [](pc = "returned" => (err = "nil" <=> lastTok.kind = "EOF"))
    /\ [][lastTok'.kind = "error" =>
            /\ pc' = "returned"
            /\ err' = lastTok'.name
            /\ err' # "nil"
            /\ icon' = icon
            /\ cursor' = cursor
            /\ decoder' = decoder]_vars

\* A read error under IgnoreErrorMode after a shape was added.
C6_Witness ==
    /\ lastTok.kind = "error"
    /\ lastTok.name = "ReadError"
    /\ cursor.errorMode = "IgnoreErrorMode"
    /\ Len(icon.SVGPaths) > 0
    /\ Len(decoder.stack) > 0
    /\ pc = "returned"

\* The step that handles an end-tag </name>, and the step that handles
\* character data.
EndTagOf(name) ==
    /\ lastTok'.kind = "end"
    /\ lastTok'.name = name
    /\ decoder'.ntok = decoder.ntok + 1
    /\ pc' = "loop"

CharDataStep ==
    /\ lastTok'.kind = "chardata"
    /\ decoder'.ntok = decoder.ntok + 1
    /\ pc' = "loop"

DefsAt(defs, id) == SelectSeq(defs, LAMBDA kv : kv[1] = id)
DefsBut(defs, id) == SelectSeq(defs, LAMBDA kv : kv[1] # id)

\* C13: the accumulator is empty outside a definitions section, so what it
\* holds at </defs> is what was accumulated since the section opened; that
\* </defs> stores it in the definitions mapping under the identifier of its
\* first entry (the other keys untouched), empties the accumulator and
\* clears the flag; with an empty accumulator the mapping is left as it
\* was and the flag is cleared all the same.
C13_DefsCommit ==
    /\ [](~cursor.inDefs => cursor.currentDef = <<>>)
    /\ [][EndTagOf("defs") =>
            /\ cursor'.inDefs = FALSE
            /\ cursor'.currentDef = <<>>
            /\ IF cursor.currentDef # <<>>
               THEN /\ DefsAt(icon'.defs, cursor.currentDef[1].ID)
                          = <<<<cursor.currentDef[1].ID, cursor.currentDef>>>>
                    /\ DefsBut(icon'.defs, cursor.currentDef[1].ID)
                          = DefsBut(icon.defs, cursor.currentDef[1].ID)
               ELSE icon'.defs = icon.defs]_vars

\* A definitions section holding one shape with an identifier was closed.
C13_Witness ==
    /\ lastTok.kind = "end"
    /\ lastTok.name = "defs"
    /\ icon.defs = <<<<"a", <<[ID |-> "a", Tag |-> "rect"]>>>>>>
    /\ cursor.currentDef = <<>>
    /\ ~cursor.inDefs

\* C14: after the end-tag of a linearGradient or radialGradient element the
\* inside-gradient flag is clear and the gradient mapping holds the
\* gradient that was being populated, with its stops, under its identifier.
C14_ClosedGradientIsRegistered ==
    (lastTok.kind = "end" /\ lastTok.name \in GradientElements /\ pc = "loop") =>
        /\ ~cursor.inGrad
        /\ \E i \in 1..Len(icon.grads) : icon.grads[i] = <<cursor.grad.ID, cursor.grad>>

\* C15: </g> appends exactly one "endg" marker to the end of the
\* accumulator when the inside-definitions flag is set and leaves the
\* accumulator as it was when the flag is clear; in both cases the
\* definitions mapping and the display list are left unchanged.
C15_EndGroupMarker ==
    [][EndTagOf("g") =>
         /\ cursor'.currentDef = IF cursor.inDefs
                                 THEN Append(cursor.currentDef, [ID |-> "", Tag |-> "endg"])
                                 ELSE cursor.currentDef
         /\ icon'.defs = icon.defs
         /\ icon'.SVGPaths = icon.SVGPaths]_vars

\* A group was opened and closed inside a definitions section.
C15_Witness ==
    /\ lastTok.kind = "end"
    /\ lastTok.name = "g"
    /\ cursor.inDefs
    /\ cursor.currentDef = <<[ID |-> "", Tag |-> "g"], [ID |-> "", Tag |-> "endg"]>>
    /\ icon.SVGPaths = <<>>

\* The entries of texts that exist now are the same at the next state.
Kept(texts, n) ==
    /\ Len(texts') >= n
    /\ \A i \in 1..n : texts'[i] = texts[i]

\* C16: the title-capture flag is set exactly between a title start-tag and
\* the next title end-tag; character data arriving then is appended to the
\* last title entry and character data arriving otherwise leaves the title
\* entries as they were; no other token changes an existing entry, and no
\* token at all changes an entry before the last.  Likewise for desc and
\* the description entries.
C16_TextOnlyWhileCapturing ==
    /\ [](pc = "loop" => /\ cursor.inTitleText <=> ghost.sinceTitle
                         /\ cursor.inDescText <=> ghost.sinceDesc)
    /\ [][/\ CharDataStep => \E s \in CharDatas :
                /\ icon'.Titles = IF ghost.sinceTitle
                                  THEN AppendToLast(icon.Titles, s) ELSE icon.Titles
                /\ icon'.Descriptions = IF ghost.sinceDesc
                                        THEN AppendToLast(icon.Descriptions, s)
                                        ELSE icon.Descriptions
          /\ ~CharDataStep => /\ Kept(icon.Titles, Len(icon.Titles))
                              /\ Kept(icon.Descriptions, Len(icon.Descriptions))
          /\ Kept(icon.Titles, Len(icon.Titles) - 1)
          /\ Kept(icon.Descriptions, Len(icon.Descriptions) - 1)]_vars

\* Character data arrived after a second title was opened inside the first:
\* it went to the second entry and the first is still empty.
C16_Witness ==
    /\ lastTok.kind = "chardata"
    /\ icon.Titles = << <<>>, <<"x">> >>
    /\ icon.Descriptions = <<>>
    /\ cursor.inTitleText

\* C17: while the title-capture flag is set the title list is non-empty,
\* while the description-capture flag is set the description list is
\* non-empty, and the handling of character data never indexes an empty
\* list.
C17_CaptureHasAnEntry ==
    /\ cursor.inTitleText => Len(icon.Titles) > 0
    /\ cursor.inDescText => Len(icon.Descriptions) > 0
    /\ ~(pc = "panic" /\ lastTok.kind = "chardata")

\* Character data arrived with both flags set and reached both lists.
C17_Witness ==
    /\ lastTok.kind = "chardata"
    /\ cursor.inTitleText
    /\ cursor.inDescText
    /\ icon.Titles = << <<"x">> >>
    /\ icon.Descriptions = << <<"x">> >>

====
